---------------------------- MODULE Spec2Model ----------------------------
(***************************************************************************)
(* A model of helper.py: the DatePicker data class (a count of business-   *)
(* day selectors and one time-range selector) and the Intraday data class  *)
(* (timezone lookup, per-date minute-bar requests, price measures, the     *)
(* wide price/volume tables, plot).                                        *)
(*                                                                         *)
(* Dates are proleptic Gregorian ordinals (datetime.date.toordinal), an    *)
(* instant is a number of minutes since ordinal day 0 at 00:00 UTC, a time *)
(* of day is a number of minutes since midnight.                           *)
(***************************************************************************)
EXTENDS Integers, Sequences, FiniteSets

VARIABLES
    \* ---- DatePicker ----
    dp_pc,          \* "class" (class defined, no instance) or "ready" (constructed)
    _today,         \* DatePicker._today, fixed when the class body is evaluated
    cnt_arg,        \* the cnt the constructor was given
    cnt,            \* DatePicker.cnt
    _dates,         \* DatePicker._dates: the value text of each date selector
    _time_range,    \* DatePicker._time_range: the value text of the time selector
    \* ---- Intraday ----
    _tz,            \* Intraday._tz      (Unset until first assigned)
    _label,         \* Intraday._label   (Unset until first assigned)
    _prices,        \* Intraday._prices  (Unset until first assigned)
    _volumes,       \* Intraday._volumes (Unset until first assigned)
    pc,             \* position inside calculate_measures: "idle", "tz", "loop", "concat"
    ric,            \* calculate_measures locals ...
    dates,
    time_range,
    measure,
    prices,
    volumes,
    idx,            \* position of the for loop over dates (1-based)
    served,         \* the pricing requests issued by the running / latest call
    hist,           \* the latest call that went past the argument check
    out             \* what the latest operation showed or raised

dpvars == <<dp_pc, _today, cnt_arg, cnt, _dates, _time_range>>
idvars == <<_tz, _label, _prices, _volumes, pc, ric, dates, time_range, measure,
            prices, volumes, idx, served, hist, out>>
vars == <<dpvars, idvars>>

-----------------------------------------------------------------------------
(* Bounds of the model *)

\* how far outside 1..10 the constructor argument cnt is drawn
CntSlack == 3
\* number of consecutive reference dates explored (covers every weekday twice)
TodaySpan == 14
\* longest dates list passed to calculate_measures
MaxDates == 2

(* Program constants *)

MinCnt == 1
MaxCnt == 10
DefaultCnt == 5
\* d.weekday() < 5
WeekendStart == 5

\* values standing for Python's None and for an attribute never assigned
None == [k |-> "None"]
Unset == [k |-> "unset"]
\* Intraday._tz before its first assignment
NoTz == "<unset>"

-----------------------------------------------------------------------------
(* Calendar: datetime.date arithmetic, f'{d}' and strptime("%Y-%m-%d") *)

\* first reference date explored: 2021-02-22, a Monday
TodayFirst == 737843
\* datetime.date.weekday(): Monday is 0
weekday(d) == (d + 6) % 7

\* f'{d}' of a datetime.date: the civil (year, month, day) of an ordinal
\* (305 days separate 0000-03-01 from ordinal 0)
IsoFormat(d) ==
    LET z   == d + 305
        era == z \div 146097
        doe == z - era * 146097
        yoe == (doe - doe \div 1460 + doe \div 36524 - doe \div 146096) \div 365
        y   == yoe + era * 400
        doy == doe - (365 * yoe + yoe \div 4 - yoe \div 100)
        mp  == (5 * doy + 2) \div 153
        dd  == doy - (153 * mp + 2) \div 5 + 1
        m   == IF mp < 10 THEN mp + 3 ELSE mp - 9
    IN  <<IF m <= 2 THEN y + 1 ELSE y, m, dd>>

\* the ordinal of a civil date
ToOrdinal(y, m, dd) ==
    LET yy  == IF m <= 2 THEN y - 1 ELSE y
        era == yy \div 400
        yoe == yy - era * 400
        mp  == IF m > 2 THEN m - 3 ELSE m + 9
        doy == (153 * mp + 2) \div 5 + dd - 1
        doe == yoe * 365 + yoe \div 4 - yoe \div 100 + doy
    IN  era * 146097 + doe - 305

\* datetime.datetime.strptime(text, "%Y-%m-%d"): midnight of that date
Strptime(text) ==
    [date |-> ToOrdinal(text[1], text[2], text[3]), hour |-> 0, minute |-> 0]

-----------------------------------------------------------------------------
(* DatePicker *)

CntArgs == (MinCnt - CntSlack)..(MaxCnt + CntSlack)
TodayRange == TodayFirst..(TodayFirst + TodaySpan - 1)

\* line 47 without its lower bound
EffectiveCnt_NoLowerBound(c) == IF c > MaxCnt THEN DefaultCnt ELSE c

\* line 47
EffectiveCnt(c) == IF c < MinCnt \/ c > MaxCnt THEN DefaultCnt ELSE c

\* the inner while loop taking Saturday for a business day
RECURSIVE SkipWeekend_SaturdayKept(_, _)
SkipWeekend_SaturdayKept(today, delta) ==
    IF weekday(today - delta) <= WeekendStart
    THEN delta
    ELSE SkipWeekend_SaturdayKept(today, delta + 1)

\* the inner while loop: the first delta' >= delta whose day is not a weekend
RECURSIVE SkipWeekend(_, _)
SkipWeekend(today, delta) ==
    IF weekday(today - delta) < WeekendStart
    THEN delta
    ELSE SkipWeekend(today, delta + 1)

\* the for loop: the dates appended from iteration i on, starting at delta
RECURSIVE InitDates(_, _, _, _)
InitDates(today, n, i, delta) ==
    IF i >= n
    THEN <<>>
    ELSE LET dl == SkipWeekend(today, delta)
         IN  <<IsoFormat(today - dl)>> \o InitDates(today, n, i + 1, dl + 1)

\* value=["1900-01-01T09:30", "1900-01-01T16:00"] as (hour, minute) pairs
DefaultTimeRange == <<[hour |-> 9, minute |-> 30], [hour |-> 16, minute |-> 0]>>

\* DatePicker(cnt=c): the generated __init__ and __post_init__
Construct(c) ==
    /\ dp_pc = "class"
    /\ dp_pc' = "ready"
    /\ cnt_arg' = c
    /\ cnt' = EffectiveCnt(c)
    /\ _dates' = InitDates(_today, EffectiveCnt(c), 0, 1)
    /\ _time_range' = DefaultTimeRange
    /\ UNCHANGED <<_today, idvars>>

\* the dates property
DatePicker_dates == [i \in 1..Len(_dates) |-> Strptime(_dates[i])]

\* the time_range property
DatePicker_time_range == _time_range

-----------------------------------------------------------------------------
(* The services and libraries calculate_measures calls *)

\* instruments the notebook asks for
Rics == {"IBM.N", "7203.T"}

\* rd.get_data(ric, ["TR.MASOperatingTZ"]) and rd.get_data(ric, ["CF_NAME"]),
\* when they answer with a row
OperatingTZ(r) == IF r = "IBM.N" THEN "America/New_York" ELSE "Asia/Tokyo"
CfName(r) == IF r = "IBM.N" THEN "INTL BUS MACHINE" ELSE "TOYOTA MOTOR"

\* the tz database entry of a zone, offsets in minutes east of UTC: lmt is
\* the zone's first entry (local mean time, rounded to the minute), std and
\* dst the offsets in force in 2021, dst from day dst_from to before dst_to
Zone(z) ==
    IF z = "America/New_York"
    THEN [lmt |-> -296, std |-> -300, dst |-> -240,
          dst_from |-> 737863, dst_to |-> 738101]
    ELSE [lmt |-> 559, std |-> 540, dst |-> 540, dst_from |-> 0, dst_to |-> 0]

\* the UTC offset in force in zone z on local date d
OffsetOn(z, d) ==
    IF Zone(z).dst_from <= d /\ d < Zone(z).dst_to THEN Zone(z).dst ELSE Zone(z).std

\* utcoffset() of a datetime built with tzinfo=pytz.timezone(z): the tzinfo
\* object pytz.timezone returns carries the zone's first entry until
\* localize() picks the entry for a date, and the datetime constructor does
\* not call localize()
TzinfoOffset(z) == Zone(z).lmt

\* DatetimeIndex.tz_convert(z) of a UTC instant: the local wall-clock minute
TzConvert(z, u) == u + OffsetOn(z, (u + Zone(z).std) \div 1440)

\* datetime.datetime(y, m, d, hour, minute, 0) as a wall-clock minute count
WallClock(y, m, d, hour, minute) == ToOrdinal(y, m, d) * 1440 + hour * 60 + minute

\* the dates a caller passes: 2021-07-06 and 2021-01-05, as DatePicker.dates
\* returns them
DateArgs == {Strptime(<<2021, 7, 6>>), Strptime(<<2021, 1, 5>>)}

RECURSIVE SeqsUpTo(_, _)
SeqsUpTo(S, n) ==
    IF n = 0 THEN {<<>>}
    ELSE LET shorter == SeqsUpTo(S, n - 1)
         IN  shorter \cup {Append(q, x) : q \in shorter, x \in S}

\* the dates argument: a list of datetimes, or a single datetime
DatesArgs ==
    {[islist |-> TRUE, items |-> q] : q \in SeqsUpTo(DateArgs, MaxDates)}
    \cup {[islist |-> FALSE, items |-> <<d>>] : d \in DateArgs}

\* the time_range argument: the picker's default, and a list of a wrong length
TimeRangeArgs == {DefaultTimeRange, <<DefaultTimeRange[1]>>}

MeasureNone == "<None>"
MeasureArgs == {MeasureNone, "net", "pct"}

\* the title argument of plot: None, or a text
TitleArgs == {None, [k |-> "text", text |-> "Intraday"]}

\* minutes after the requested start at which the service may hold a bar
Slots == {0, 1}
\* trade prices and volumes of a bar
PriceChoices == {0, 3}
VolumeChoices == {40}

-----------------------------------------------------------------------------
(* pandas: cell values, series and frames *)

\* a cell is a number n/d (d > 0, lowest terms), NaN or an infinity
Num(n) == [k |-> "num", n |-> n, d |-> 1]
NaN == [k |-> "nan", n |-> 0, d |-> 1]
Inf(sign) == [k |-> "inf", n |-> sign, d |-> 1]

Abs(a) == IF a < 0 THEN -a ELSE a

RECURSIVE Gcd(_, _)
Gcd(a, b) == IF b = 0 THEN a ELSE Gcd(b, a % b)

\* float division of two numbers: x/0 is an infinity, 0/0 is NaN
TrueDiv(a, b) ==
    IF b = 0
    THEN IF a = 0 THEN NaN ELSE Inf(IF a > 0 THEN 1 ELSE -1)
    ELSE LET g == Gcd(Abs(a), Abs(b))
             s == IF b < 0 THEN -1 ELSE 1
         IN  [k |-> "num", n |-> (s * a) \div g, d |-> Abs(b) \div g]

Min(S) == CHOOSE x \in S : \A y \in S : x <= y
Max(S) == CHOOSE x \in S : \A y \in S : y <= x

\* the answers of one historical_pricing request for [start, end]: it raises,
\* or response.data.df is a frame of minute bars indexed by UTC instant in
\* ascending order: a bar for each minute from start up to the last minute
\* the service holds, possibly none
Responses(start, end) ==
    LET avail == {s \in Slots : start + s <= end}
        spans == {{start + s : s \in {a \in avail : a < m}} : m \in 0..Cardinality(avail)}
        bars  == [price : {Num(p) : p \in PriceChoices},
                  volume : {Num(v) : v \in VolumeChoices}]
    IN  {[kind |-> "raise", df |-> <<>>]}
        \cup {[kind |-> "data", df |-> f] : f \in UNION {[T -> bars] : T \in spans}}

\* DataFrame.dropna() of a frame of bars: the rows with no NaN cell
DropNaRows(df) ==
    LET keep == {t \in DOMAIN df : df[t].price.k # "nan" /\ df[t].volume.k # "nan"}
    IN  [t \in keep |-> df[t]]

\* pd.concat(frames, axis=1, sort=False): the columns side by side over the
\* union of the row labels, NaN where a frame has no such row
Concat(frames) ==
    LET index == UNION {DOMAIN frames[i].cells : i \in 1..Len(frames)}
    IN  [k |-> "table",
         cols  |-> [i \in 1..Len(frames) |-> frames[i].col],
         index |-> index,
         data  |-> [i \in 1..Len(frames) |->
                      [t \in index |-> IF t \in DOMAIN frames[i].cells
                                       THEN frames[i].cells[t] ELSE NaN]]]

\* DataFrame.dropna() of a table: the rows in which no cell is NaN
DropNa(table) ==
    LET keep == {t \in table.index :
                    \A i \in 1..Len(table.cols) : table.data[i][t].k # "nan"}
    IN  [k |-> "table",
         cols  |-> table.cols,
         index |-> keep,
         data  |-> [i \in 1..Len(table.cols) |-> [t \in keep |-> table.data[i][t]]]]

-----------------------------------------------------------------------------
(* Intraday *)

NoCall == [state |-> "never", ric |-> "", dates |-> <<>>, time_range |-> <<>>,
           measure |-> "", lookup |-> <<>>, tz_ok |-> FALSE]
\* what an operation leaves to see: the exception it raised ("none" when it
\* returned), the lines it printed, the charts it rendered
NoOutput == [op |-> "", arg |-> None, raised |-> "none", printed |-> <<>>, charts |-> <<>>]
Shown(op, arg, printed) ==
    [op |-> op, arg |-> arg, raised |-> "none", printed |-> printed, charts |-> <<>>]
Raised(op, arg, exc) ==
    [op |-> op, arg |-> arg, raised |-> exc, printed |-> <<>>, charts |-> <<>>]

\* the locals of calculate_measures are gone once it returns
ClearLocals ==
    /\ ric' = ""
    /\ dates' = <<>>
    /\ time_range' = <<>>
    /\ measure' = ""
    /\ prices' = <<>>
    /\ volumes' = <<>>
    /\ idx' = 0

\* lines 145-146: a single datetime stands for a list of one
AsList(dsarg) == IF ~dsarg.islist THEN <<dsarg.items[1]>> ELSE dsarg.items

\* line 147: the arguments calculate_measures goes on with
ArgsAccepted(ds, tr) == ~(Len(ds) < 1 \/ Len(tr) # 2)

\* calculate_measures, lines 141-160: normalise and check the arguments,
\* reset the results
Call(r, dsarg, tr, m) ==
    LET ds == AsList(dsarg)
    IN  /\ pc = "idle"
        /\ IF ArgsAccepted(ds, tr)
           THEN /\ pc' = "tz"
                /\ ric' = r
                /\ dates' = ds
                /\ time_range' = tr
                /\ measure' = m
                /\ prices' = <<>>
                /\ volumes' = <<>>
                /\ idx' = 1
                /\ _prices' = None
                /\ _volumes' = None
                /\ served' = <<>>
                /\ out' = Shown("calculate_measures", None, <<"Processing...">>)
                /\ hist' = [state |-> "running", ric |-> r, dates |-> ds,
                            time_range |-> tr, measure |-> m, lookup |-> <<>>,
                            tz_ok |-> FALSE]
                /\ UNCHANGED <<_tz, _label>>
           ELSE /\ out' = Shown("calculate_measures", None, <<>>)
                /\ UNCHANGED <<pc, ric, dates, time_range, measure, prices, volumes,
                               idx, _prices, _volumes, _tz, _label, served, hist>>
        /\ UNCHANGED dpvars

\* the f-string of line 274
Label(name, z) == [k |-> "label", name |-> name, tz |-> z]

\* __get_timezone reporting success as soon as the timezone answer has a row
Success_NameIgnored(tzres, nmres) == tzres = "row"

\* what __get_timezone leaves in _tz and _label, and returns, for the two
\* rd.get_data answers: "raise", "empty" or "row", and "unreached" for the
\* name request when the timezone request raised
TzAfter(tzres, nmres) ==
    IF tzres = "row" /\ nmres \in {"empty", "row"} THEN OperatingTZ(ric) ELSE _tz
LabelAfter(tzres, nmres) ==
    IF tzres = "row" /\ nmres = "row"
    THEN Label(CfName(ric), OperatingTZ(ric)) ELSE _label
Success(tzres, nmres) == tzres = "row" /\ nmres = "row"

\* calculate_measures, line 163: __get_timezone(ric), lines 260-281.  The
\* second get_data is not reached when the first raises; nm.iat[0,1] raises
\* on an empty answer, after _tz was assigned; every exception is caught and
\* the finally clause returns success
GetTimezone(tzres, nmres) ==
    /\ pc = "tz"
    /\ tzres = "raise" <=> nmres = "unreached"
    /\ _tz' = TzAfter(tzres, nmres)
    /\ _label' = LabelAfter(tzres, nmres)
    /\ IF Success(tzres, nmres)
       THEN /\ pc' = "loop"
            /\ out' = out
       ELSE /\ pc' = "concat"
            /\ out' = [out EXCEPT !.printed =
                          @ \o <<"Failed to retrieve timezone information">>]
    /\ hist' = [hist EXCEPT !.lookup = <<tzres, nmres>>,
                            !.tz_ok = Success(tzres, nmres)]
    /\ UNCHANGED <<_prices, _volumes, ric, dates, time_range, measure, prices,
                   volumes, idx, served, dpvars>>

\* lines 169-176: the UTC instant sent for local time t of the day `date`
UtcInstant(date, t) ==
    LET ymd == IsoFormat(date.date)
    IN  WallClock(ymd[1], ymd[2], ymd[3], t.hour, t.minute) - TzinfoOffset(_tz)

\* lines 198-201 dividing by the bar's own price instead of the first price
Derive_OwnPrice(m, p, first) ==
    IF m = "net" THEN Num(p - first)
    ELSE IF m = "pct" THEN TrueDiv(p - first, p)
    ELSE Num(p)

\* lines 198-201: the price column under the measure, first being df[price][0]
Derive(m, p, first) ==
    IF m = "net" THEN Num(p - first)
    ELSE IF m = "pct" THEN TrueDiv(p - first, first)
    ELSE Num(p)

\* lines 195-205: price_df keeps the derived price column, volume_df the
\* volume column
PriceColumn(bar, m, first) == Derive(m, bar.price.n, first)
VolumeColumn(bar, m, first) == bar.volume

\* lines 186-210: the frame of one date, from the bars df (not empty), with
\* the kept column ("price" or "volume") renamed to the local date of the
\* last bar and the rows labelled by local time of day
Frame(df, kept, m) ==
    LET local == [u \in DOMAIN df |-> TzConvert(_tz, u)]
        first == df[Min(DOMAIN df)].price.n
        tod   == {local[u] % 1440 : u \in DOMAIN df}
        at(t) == CHOOSE u \in DOMAIN df : local[u] % 1440 = t
    IN  [col   |-> Max({local[u] : u \in DOMAIN df}) \div 1440,
         cells |-> [t \in tod |-> IF kept = "price"
                                   THEN PriceColumn(df[at(t)], m, first)
                                   ELSE VolumeColumn(df[at(t)], m, first)]]

\* lines 184-217, for the answer resp to the request of [start, end] for date
Process(date, start, end, resp) ==
    LET df == IF resp.kind = "data" THEN DropNaRows(resp.df) ELSE <<>>
    IN  /\ served' = Append(served, [date |-> date, start |-> start,
                                     end |-> end, resp |-> resp])
        /\ IF resp.kind = "raise"
           THEN /\ out' = [out EXCEPT !.printed = @ \o <<"Issue retrieving data">>]
                /\ UNCHANGED <<prices, volumes>>
           ELSE IF DOMAIN df = {}
           THEN /\ out' = [out EXCEPT !.printed = @ \o <<"No data returned">>]
                /\ UNCHANGED <<prices, volumes>>
           ELSE /\ prices' = Append(prices, Frame(df, "price", measure))
                /\ volumes' = Append(volumes, Frame(df, "volume", measure))
                /\ out' = out

\* a loop that a raising request ends
AfterRequest_StopOnRaise(i, n, resp) ==
    IF i = n \/ resp.kind = "raise" THEN "concat" ELSE "loop"

\* line 165: the loop goes on to the next date whatever the answer was
AfterRequest(i, n, resp) == IF i = n THEN "concat" ELSE "loop"

\* calculate_measures, lines 165-217: one turn of the loop over dates, with
\* any answer of the pricing service
Request ==
    /\ pc = "loop"
    /\ LET date  == dates[idx]
           start == UtcInstant(date, time_range[1])
           end   == UtcInstant(date, time_range[2])
       IN  \E resp \in Responses(start, end) :
              /\ Process(date, start, end, resp)
              /\ pc' = AfterRequest(idx, Len(dates), resp)
    /\ idx' = idx + 1
    /\ UNCHANGED <<_tz, _label, _prices, _volumes, ric, dates, time_range, measure,
                   hist, dpvars>>

\* lines 221-222
Organize(frames) == DropNa(Concat(frames))

\* calculate_measures, lines 219-226: organise the results and return
Finish ==
    /\ pc = "concat"
    /\ IF Len(prices) > 0
       THEN /\ _prices' = Organize(prices)
            /\ _volumes' = Organize(volumes)
            /\ out' = [out EXCEPT !.printed = @ \o <<"**Done">>]
       ELSE /\ out' = [out EXCEPT !.printed =
                          @ \o <<"Failed to generate any measures", "**Done">>]
            /\ UNCHANGED <<_prices, _volumes>>
    /\ hist' = [hist EXCEPT !.state = "returned"]
    /\ pc' = "idle"
    /\ ClearLocals
    /\ UNCHANGED <<_tz, _label, served, dpvars>>

\* the prices, volumes and label properties, lines 228-246
Intraday_prices == IF _prices = Unset THEN None ELSE _prices
Intraday_volumes == IF _volumes = Unset THEN None ELSE _volumes
Intraday_label == IF _label = Unset THEN [k |-> "AttributeError"] ELSE _label

\* plot(title), lines 248-257: reading an attribute never assigned raises
\* AttributeError, reading the global name _label raises NameError
Plot(title) ==
    /\ pc = "idle"
    /\ out' =
         IF _prices = Unset THEN Raised("plot", title, "AttributeError")
         ELSE IF _prices # None
         THEN IF title = None THEN Raised("plot", title, "NameError")
              ELSE [op |-> "plot", arg |-> title, raised |-> "none", printed |-> <<>>,
                    charts |-> <<[kind |-> "line", title |-> title,
                                  table |-> Intraday_prices],
                                 [kind |-> "bar", title |-> None,
                                  table |-> Intraday_volumes]>>]
         ELSE Shown("plot", title, <<"No measures generated">>)
    /\ UNCHANGED <<_tz, _label, _prices, _volumes, pc, ric, dates, time_range,
                   measure, prices, volumes, idx, served, hist, dpvars>>

-----------------------------------------------------------------------------
(* Specifications *)

IntradayInit ==
    /\ _tz = NoTz
    /\ _label = Unset
    /\ _prices = Unset
    /\ _volumes = Unset
    /\ pc = "idle"
    /\ ric = ""
    /\ dates = <<>>
    /\ time_range = <<>>
    /\ measure = ""
    /\ prices = <<>>
    /\ volumes = <<>>
    /\ idx = 0
    /\ served = <<>>
    /\ hist = NoCall
    /\ out = NoOutput

PickerInit ==
    /\ dp_pc = "class"
    /\ cnt_arg = 0
    /\ cnt = 0
    /\ _dates = <<>>
    /\ _time_range = <<>>

\* an Intraday object and the notebook calling it
Init ==
    /\ IntradayInit
    /\ PickerInit
    /\ _today = TodayFirst

Next ==
    \/ \E r \in Rics, dsarg \in DatesArgs, tr \in TimeRangeArgs, m \in MeasureArgs :
          Call(r, dsarg, tr, m)
    \/ \E tzres \in {"raise", "empty", "row"},
          nmres \in {"unreached", "raise", "empty", "row"} :
          GetTimezone(tzres, nmres)
    \/ Request
    \/ Finish
    \/ \E title \in TitleArgs : Plot(title)

Spec == Init /\ [][Next]_vars

\* the DatePicker class, defined on any reference date, and its construction
InitPicker ==
    /\ IntradayInit
    /\ PickerInit
    /\ _today \in TodayRange

NextPicker == \E c \in CntArgs : Construct(c)

SpecPicker == InitPicker /\ [][NextPicker]_vars

-----------------------------------------------------------------------------
(* Properties of DatePicker *)

\* C1: after construction the stored count is in 1..10; a cnt given in 1..10
\* is kept, any other is replaced by 5; the number of date selectors and the
\* length of the list `dates` returns equal the stored count.
C1_CountBounded ==
    dp_pc = "ready" =>
        /\ cnt \in 1..10
        /\ (cnt_arg \in 1..10 => cnt = cnt_arg)
        /\ (cnt_arg \notin 1..10 => cnt = 5)
        /\ Len(_dates) = cnt
        /\ Len(DatePicker_dates) = cnt

C1_Witness ==
    /\ dp_pc = "ready"
    /\ cnt_arg > 10
    /\ cnt = 5
    /\ Len(DatePicker_dates) = 5

\* C2: the selectors start, in order, at the most recent business days
\* strictly before the reference date: each is Monday-Friday, each is earlier
\* than the one before it (so none is repeated), and no Monday-Friday day
\* between the last selector and the reference date is left out.
C2_RecentBusinessDays ==
    dp_pc = "ready" =>
        LET ds == DatePicker_dates
            n  == Len(ds)
        IN  /\ n = cnt
            /\ \A i \in 1..n :
                  /\ (ds[i].date + 6) % 7 \in 0..4
                  /\ ds[i].date < _today
                  /\ ds[i].hour = 0 /\ ds[i].minute = 0
            /\ \A i \in 1..(n - 1) : ds[i + 1].date < ds[i].date
            /\ \A x \in ds[n].date..(_today - 1) :
                  (x + 6) % 7 \in 0..4 => \E i \in 1..n : ds[i].date = x

\* the reference date is a Monday, so the first selector is the Friday before,
\* and ten selectors span two weekends
C2_Witness ==
    /\ dp_pc = "ready"
    /\ cnt = 10
    /\ (_today + 6) % 7 = 0
    /\ Strptime(_dates[1]).date = _today - 3
    /\ Strptime(_dates[10]).date = _today - 14

-----------------------------------------------------------------------------
(* Properties of Intraday *)

\* the latest calculate_measures call that went past the argument check has
\* returned
Returned == pc = "idle" /\ hist.state = "returned"

\* the latest operation was a calculate_measures call that returned at the
\* argument check (it showed nothing)
ReturnedAtCheck ==
    pc = "idle" /\ out.op = "calculate_measures" /\ out.printed = <<>>

\* a served request whose answer had bars
HasBars(e) == e.resp.kind = "data" /\ DOMAIN e.resp.df # {}
WithBars == SelectSeq(served, HasBars)

\* the zone's local time of day, and local date, of a UTC instant on a date
\* when offset minutes east of UTC are in force
TimeOfDay(u, offset) == (u + offset) % 1440
LocalDay(u, offset) == (u + offset) \div 1440

\* the offset in force in the instrument's zone on the date requested by e
OffsetFor(e) == OffsetOn(OperatingTZ(hist.ric), e.date.date)

\* the times of day at which the answer of e has a bar, and the bar at one
BarTimes(e) == {TimeOfDay(u, OffsetFor(e)) : u \in DOMAIN e.resp.df}
BarAt(e, t) ==
    e.resp.df[CHOOSE u \in DOMAIN e.resp.df : TimeOfDay(u, OffsetFor(e)) = t]
FirstPrice(e) ==
    e.resp.df[CHOOSE u \in DOMAIN e.resp.df : \A w \in DOMAIN e.resp.df : u <= w].price.n

\* C3: after every calculate_measures call returns, prices and volumes hold
\* only the outcome of that call: tables with that call's dates, or None
\* when it produced no measures -- a call given an empty dates list or a
\* time_range of another length than 2 included.
C3_OverwrittenByEveryCall ==
    (pc = "idle" /\ out.op = "calculate_measures") =>
        IF ReturnedAtCheck \/ WithBars = <<>>
        THEN Intraday_prices = None /\ Intraday_volumes = None
        ELSE /\ Intraday_prices # None /\ Intraday_volumes # None
             /\ Intraday_prices.cols = [j \in 1..Len(WithBars) |-> WithBars[j].date.date]
             /\ Intraday_volumes.cols = Intraday_prices.cols

\* C4: when the timezone lookup succeeds, one pricing request is made for
\* each date of `dates`, in order, whatever the earlier requests answered;
\* the call returns, and the tables have one column for each date whose
\* request had bars, in the order of `dates`, and none for the other dates.
C4_PrintAndContinue ==
    (Returned /\ hist.tz_ok) =>
        /\ Len(served) = Len(hist.dates)
        /\ \A i \in 1..Len(served) : served[i].date = hist.dates[i]
        /\ IF WithBars = <<>>
           THEN _prices = None /\ _volumes = None
           ELSE /\ _prices # None /\ _volumes # None
                /\ _prices.cols = [j \in 1..Len(WithBars) |-> WithBars[j].date.date]
                /\ _volumes.cols = [j \in 1..Len(WithBars) |-> WithBars[j].date.date]

\* the first request raised, the second had bars: one column, the second date's
C4_Witness ==
    /\ Returned /\ hist.tz_ok
    /\ Len(served) = 2
    /\ served[1].resp.kind = "raise"
    /\ HasBars(served[2])
    /\ served[1].date # served[2].date
    /\ _prices # None
    /\ _prices.cols = <<served[2].date.date>>

\* the value the claim gives a price cell under measure m
IsMeasureOf(cell, m, p, first) ==
    IF m = "net" THEN cell = [k |-> "num", n |-> p - first, d |-> 1]
    ELSE IF m = "pct"
    THEN first # 0 => /\ cell.k = "num"
                      /\ cell.d > 0
                      /\ cell.n * first = (p - first) * cell.d
    ELSE cell = [k |-> "num", n |-> p, d |-> 1]

\* C5: per date, under 'net' every price cell is the bar's price minus the
\* first observed price of that date (0 at the first bar), under 'pct' that
\* difference divided by the first observed price, under any other measure
\* the bar's price; the volume cells are the bars' volumes under every measure.
\* Stated of the per-date columns once the loop is over, and of the tables.
C5_MeasureFromFirstPrice ==
    /\ (pc = "concat" /\ hist.tz_ok) =>
          /\ Len(prices) = Len(WithBars) /\ Len(volumes) = Len(WithBars)
          /\ \A j \in 1..Len(WithBars) :
                LET e == WithBars[j]
                IN  /\ DOMAIN prices[j].cells = BarTimes(e)
                    /\ DOMAIN volumes[j].cells = BarTimes(e)
                    /\ \A t \in BarTimes(e) :
                          /\ IsMeasureOf(prices[j].cells[t], hist.measure,
                                         BarAt(e, t).price.n, FirstPrice(e))
                          /\ volumes[j].cells[t] = BarAt(e, t).volume
                    /\ (hist.measure \in {"net", "pct"} /\ FirstPrice(e) # 0) =>
                          \A t \in BarTimes(e) :
                              (\A t2 \in BarTimes(e) : t <= t2) =>
                                  prices[j].cells[t] = [k |-> "num", n |-> 0, d |-> 1]
    /\ (Returned /\ _prices # None) =>
          \A j \in 1..Len(WithBars) :
             LET e == WithBars[j]
             IN  /\ \A t \in _prices.index :
                       IsMeasureOf(_prices.data[j][t], hist.measure,
                                   BarAt(e, t).price.n, FirstPrice(e))
                 /\ \A t \in _volumes.index :
                       _volumes.data[j][t] = BarAt(e, t).volume

\* a percent change of -1 (from 3 to 0) next to an unchanged volume
C5_Witness ==
    /\ Returned /\ _prices # None
    /\ hist.measure = "pct"
    /\ \E j \in 1..Len(_prices.cols) : \E t \in _prices.index :
          /\ _prices.data[j][t] = [k |-> "num", n |-> -1, d |-> 1]
          /\ _volumes.data[j][t] = [k |-> "num", n |-> 40, d |-> 1]

\* the instant at which the zone's wall clock shows time t of the date
LocalInstant(z, date, t) ==
    date.date * 1440 + t.hour * 60 + t.minute - OffsetOn(z, date.date)

\* C6: the UTC start and end of every request are the instants at which the
\* instrument's wall clock, with the offset in force on that date, shows the
\* start and end time on that date; rows and columns of the tables are local
\* times of day and local dates of the bars.
C6_TimezoneCorrectWindow ==
    /\ \A i \in 1..Len(served) :
          /\ served[i].start =
                LocalInstant(OperatingTZ(hist.ric), served[i].date, hist.time_range[1])
          /\ served[i].end =
                LocalInstant(OperatingTZ(hist.ric), served[i].date, hist.time_range[2])
    /\ (Returned /\ _prices # None) =>
          /\ \A t \in _prices.index : \A j \in 1..Len(WithBars) : t \in BarTimes(WithBars[j])
          /\ \A j \in 1..Len(WithBars) :
                \E u \in DOMAIN WithBars[j].resp.df :
                    _prices.cols[j] = LocalDay(u, OffsetFor(WithBars[j]))

\* C7: once the latest call, for instrument R, has returned, a label that is
\* there is the name-and-timezone label of R, and names the timezone of that
\* call; it is never the label an earlier call got for another instrument,
\* also when the latest call's timezone or name lookup failed.
C7_LabelOfLatestInstrument ==
    (Returned /\ _label # Unset) =>
        /\ _label = [k |-> "label", name |-> CfName(hist.ric),
                     tz |-> OperatingTZ(hist.ric)]
        /\ _label.tz = _tz

\* C8: plot never fails: with measures it renders the price chart (titled
\* with the label when title is None) and the volume chart; without, it
\* prints 'No measures generated' and renders nothing; prices and volumes
\* are None before the first call.
C8_PlotNeverFails ==
    /\ (_prices = Unset => Intraday_prices = None)
    /\ (_volumes = Unset => Intraday_volumes = None)
    /\ out.op = "plot" =>
          /\ out.raised = "none"
          /\ IF Intraday_prices # None
             THEN /\ Len(out.charts) = 2
                  /\ out.charts[1].table = Intraday_prices
                  /\ out.charts[2].table = Intraday_volumes
                  /\ out.charts[1].title =
                        IF out.arg = None THEN Intraday_label ELSE out.arg
             ELSE /\ out.charts = <<>>
                  /\ out.printed = <<"No measures generated">>

\* __get_timezone got no usable answer: a lookup raised or the timezone
\* answer was empty (or the name answer was, which raises in nm.iat)
LookupFailed ==
    /\ hist.state \in {"running", "returned"}
    /\ hist.lookup # <<>>
    /\ hist.lookup[1] # "row" \/ hist.lookup[2] # "row"

\* C9: when the timezone lookup fails, __get_timezone returns False, no
\* pricing request is made, the call returns, and prices and volumes are
\* None, whatever an earlier call left.
C9_NoTimezoneNoMeasures ==
    LookupFailed =>
        /\ ~hist.tz_ok
        /\ pc \in {"concat", "idle"}
        /\ served = <<>>
        /\ _prices = None /\ _volumes = None
        /\ Intraday_prices = None /\ Intraday_volumes = None

\* the name lookup failed for an instrument asked after one that succeeded
C9_Witness ==
    /\ Returned
    /\ LookupFailed
    /\ hist.lookup = <<"row", "empty">>
    /\ _label # Unset
    /\ _label.name # CfName(hist.ric)
    /\ Intraday_prices = None

\* C10: prices is None exactly when volumes is None; when both are tables
\* they have the same date columns in the same order and the same rows, the
\* rows being the times of day at which every included date has a bar.
C10_TablesAgree ==
    pc = "idle" =>
        /\ (Intraday_prices = None) <=> (Intraday_volumes = None)
        /\ Intraday_prices # None =>
              /\ _prices.cols = _volumes.cols
              /\ _prices.index = _volumes.index
              /\ _prices.index =
                    {t \in UNION {BarTimes(WithBars[j]) : j \in 1..Len(WithBars)} :
                        \A j \in 1..Len(WithBars) : t \in BarTimes(WithBars[j])}

=============================================================================
